---- MODULE Spec2Model ----
(***************************************************************************)
(* Model of teuthology/provision.py: the Downburst controller (create with *)
(* bounded retry and conflict recovery, destroy, executable lookup) and    *)
(* the ownership-gated entry point destroy_if_vm.                          *)
(*                                                                         *)
(* Python values are written as strings: "None", "True", "False"; an       *)
(* exception that leaves the call is written as its class name.  Paths     *)
(* and captured stderr text are sequences of tokens; '' is <<>>.           *)
(***************************************************************************)
EXTENDS Integers, Sequences, FiniteSets, TLC

VARIABLES
    configDownburst,  \* config.downburst, <<>> when unset
    PATH,             \* os.environ['PATH'] as the list of its directories
    xok,              \* the paths p for which os.access(p, os.X_OK) holds
    config_path,      \* self.config_path: "None" or the temp file's name
    files,            \* descriptor temp files that exist on disk
    op,               \* the top-level call in progress or finished
    pc,               \* position inside that call
    counter,          \* safe_while's count of proceed() calls
    success,          \* create's local variable success
    log,              \* external invocations made by the call, in order
    args,             \* destroy_if_vm's inputs (status_info, user, description)
    result,           \* what the call returned or raised; "pending" before
    built,            \* number of build_config() calls made on the controller
    prev,             \* the call that finished before the current one
    located           \* the last direct read of the executable property

vars == <<configDownburst, PATH, xok, config_path, files, op, pc, counter,
          success, log, args, result, built, prev, located>>

env == <<configDownburst, PATH, xok>>

\* the controller's descriptor file
descriptor == <<config_path, files, built>>

\* records kept about earlier calls
history == <<prev, located>>

----------------------------------------------------------------------------
(* Bounds and input domains *)

MaxErrLen == 1     \* longest captured stderr, in tokens
MaxPathLen == 2    \* most directories in PATH
MaxBuilds == 2     \* most build_config() calls on one controller

ErrWords == {"exists", "other"}
Dirs == {"d1", "d2"}
ReturnCodes == {0, 1}
Users == {"alice", "bob"}
Descriptions == {"run1", "run2"}

RECURSIVE SeqsUpTo(_, _)
SeqsUpTo(S, n) ==
    IF n = 0 THEN {<<>>}
    ELSE LET shorter == SeqsUpTo(S, n - 1)
         IN shorter \cup {Append(s, x) : s \in {t \in shorter : Len(t) = n - 1}, x \in S}

Stderrs == SeqsUpTo(ErrWords, MaxErrLen)

----------------------------------------------------------------------------
(* Executable locator *)

CfgPath == <<"opt", "downburst">>
little_old_me == "me"
FallbackUsers == <<little_old_me, "ubuntu", "teuthology">>

JoinDownburst(p) == <<p, "downburst">>
ExpandUser(user) == <<"home", user, "src/downburst/virtualenv/bin/downburst">>

Candidates == {JoinDownburst(p) : p \in Dirs}
                  \cup {ExpandUser(FallbackUsers[i]) : i \in 1..Len(FallbackUsers)}

\* first element of the list of paths that is executable, <<>> if none
RECURSIVE FirstAccessible(_, _)
FirstAccessible(paths, acc) ==
    IF paths = <<>> THEN <<>>
    ELSE IF Head(paths) \in acc THEN Head(paths)
    ELSE FirstAccessible(Tail(paths), acc)

\* Executable searching PATH before looking at the configured override
Executable_pathFirst(cfg, path, acc) ==
    LET inPath == FirstAccessible([i \in 1..Len(path) |-> <<path[i], "downburst">>], acc)
        inHome == FirstAccessible([i \in 1..Len(FallbackUsers) |-> ExpandUser(FallbackUsers[i])], acc)
    IN IF path # <<>> /\ inPath # <<>> THEN inPath
       ELSE IF cfg # <<>> THEN cfg
       ELSE inHome

Executable(cfg, path, acc) ==
    LET inPath == FirstAccessible([i \in 1..Len(path) |-> JoinDownburst(path[i])], acc)
        inHome == FirstAccessible([i \in 1..Len(FallbackUsers) |-> ExpandUser(FallbackUsers[i])], acc)
    IN IF cfg # <<>> THEN cfg
       ELSE IF path # <<>> /\ inPath # <<>> THEN inPath
       ELSE inHome

executable == Executable(configDownburst, PATH, xok)

\* the paths handed to os.access while a list of candidates is gone through:
\* the list up to its first executable element, that one included
RECURSIVE ProbedUntilHit(_, _)
ProbedUntilHit(paths, acc) ==
    IF paths = <<>> THEN <<>>
    ELSE IF Head(paths) \in acc THEN <<Head(paths)>>
    ELSE <<Head(paths)>> \o ProbedUntilHit(Tail(paths), acc)

\* every os.access call one read of the property makes, in order
AccessCalls(cfg, path, acc) ==
    LET inPath == [i \in 1..Len(path) |-> JoinDownburst(path[i])]
        inHome == [i \in 1..Len(FallbackUsers) |-> ExpandUser(FallbackUsers[i])]
    IN IF cfg # <<>> THEN <<>>
       ELSE IF FirstAccessible(inPath, acc) # <<>> THEN ProbedUntilHit(inPath, acc)
       ELSE inPath \o ProbedUntilHit(inHome, acc)

----------------------------------------------------------------------------
(* Result classification *)

\* Python's  needle in hay  on text: a contiguous occurrence
Contains(hay, needle) ==
    \E i \in 1..(Len(hay) - Len(needle) + 1) :
        SubSeq(hay, i, i + Len(needle) - 1) = needle

Exists == <<"exists">>

\* a retry budget one larger than the one create asks for
tries_4 == 3 + 1

tries == 3

\* safe_while's proceed() at its c-th call: may the loop body run?
proceed(c) == c <= tries

\* CreateStep looking at stderr before the exit code
CreateStep_stderrFirst(returncode, stderr, succ) ==
    IF stderr # <<>> THEN
        IF Contains(stderr, <<"exists">>)
        THEN [success |-> "False", next |-> "destroy"]
        ELSE [success |-> "False", next |-> "break"]
    ELSE IF returncode = 0 THEN [success |-> "True", next |-> "break"]
    ELSE [success |-> succ, next |-> "continue"]

\* CreateStep retrying on a conflict without the destroy
CreateStep_noDestroy(returncode, stderr, succ) ==
    IF returncode = 0 THEN [success |-> "True", next |-> "break"]
    ELSE IF stderr # <<>> THEN
        IF Contains(stderr, <<"exists">>)
        THEN [success |-> "False", next |-> "continue"]
        ELSE [success |-> "False", next |-> "break"]
    ELSE [success |-> succ, next |-> "continue"]

\* CreateStep that does not record the failure of a conflicting attempt
CreateStep_noFlag(returncode, stderr, succ) ==
    IF returncode = 0 THEN [success |-> "True", next |-> "break"]
    ELSE IF stderr # <<>> THEN
        IF Contains(stderr, <<"exists">>)
        THEN [success |-> succ, next |-> "destroy"]
        ELSE [success |-> "False", next |-> "break"]
    ELSE [success |-> succ, next |-> "continue"]

\* CreateStep clearing the guest after any failure that wrote to stderr
CreateStep_destroyOnAnyError(returncode, stderr, succ) ==
    IF returncode = 0 THEN [success |-> "True", next |-> "break"]
    ELSE IF stderr # <<>> THEN [success |-> "False", next |-> "destroy"]
    ELSE [success |-> succ, next |-> "continue"]

\* CreateStep without the break after a successful attempt
CreateStep_noBreak(returncode, stderr, succ) ==
    IF returncode = 0 THEN [success |-> "True", next |-> "continue"]
    ELSE IF stderr # <<>> THEN
        IF Contains(stderr, <<"exists">>)
        THEN [success |-> "False", next |-> "destroy"]
        ELSE [success |-> "False", next |-> "break"]
    ELSE [success |-> succ, next |-> "continue"]

\* the body of create's loop after _run_create returned (returncode, _, stderr):
\* the new value of success and how the loop goes on
CreateStep(returncode, stderr, succ) ==
    IF returncode = 0 THEN [success |-> "True", next |-> "break"]
    ELSE IF stderr # <<>> THEN
        IF Contains(stderr, Exists)
        THEN [success |-> "False", next |-> "destroy"]
        ELSE [success |-> "False", next |-> "break"]
    ELSE [success |-> succ, next |-> "continue"]

\* DestroyResult trusting the exit code before looking at stderr
DestroyResult_codeFirst(returncode, err) ==
    IF returncode = 0 THEN "True"
    ELSE "False"

\* destroy's classification of the finished process
DestroyResult(returncode, err) ==
    IF err # <<>> THEN "False"
    ELSE IF returncode = 0 THEN "True"
    ELSE "False"

Invocation(kind, returncode, stderr) ==
    [kind |-> kind, returncode |-> returncode, stderr |-> stderr]

----------------------------------------------------------------------------
(* Lock status and the ownership gate of destroy_if_vm *)

NoStatus == [none |-> TRUE]

Statuses ==
    {NoStatus}
    \cup [locked_by : Users, description : Descriptions]
    \cup [is_vm : BOOLEAN, locked_by : Users, description : Descriptions]

\* GetIsVm with the default turned around
GetIsVm_defaultTrue(status_info) ==
    IF "is_vm" \in DOMAIN status_info THEN status_info.is_vm ELSE TRUE

\* status_info.get('is_vm', False)
GetIsVm(status_info) ==
    IF "is_vm" \in DOMAIN status_info THEN status_info.is_vm ELSE FALSE

\* DestroyGate without the comparison of the descriptions
DestroyGate_noDescription(status_info, user, description) ==
    IF status_info = [none |-> TRUE] \/ ~GetIsVm(status_info) THEN "True"
    ELSE IF user # "None" /\ user # status_info.locked_by THEN "False"
    ELSE "construct"

\* the checks of destroy_if_vm before the controller is constructed
DestroyGate(status_info, user, description) ==
    IF status_info = NoStatus \/ ~GetIsVm(status_info) THEN "True"
    ELSE IF user # "None" /\ user # status_info.locked_by THEN "False"
    ELSE IF description # "None" /\ description # status_info.description THEN "False"
    ELSE "construct"

\* Downburst(machine_name=..., os_type=..., os_version=..., status=...) against
\* __init__(self, name, os_type, os_version, status=None)
ConstructByKeyword(keyword) ==
    IF keyword = "name" THEN "constructed" ELSE "TypeError"

NoArgs == [status_info |-> NoStatus, user |-> "None", description |-> "None"]

----------------------------------------------------------------------------
(* Initial states: a constructed controller, no call made yet *)

NoCall == [op |-> "none", result |-> "pending"]
NotLocated == [path |-> <<>>, probed |-> <<>>]

Envs ==
    {e \in [cfg : {<<>>, CfgPath},
            path : SeqsUpTo({"d1"}, MaxPathLen),
            acc : {{}, {JoinDownburst("d1")}, {ExpandUser("ubuntu")}}] : TRUE}

Init ==
    /\ \E e \in Envs :
        /\ configDownburst = e.cfg
        /\ PATH = e.path
        /\ xok = e.acc
    /\ config_path = "None"
    /\ files = {}
    /\ op = "none"
    /\ pc = "idle"
    /\ counter = 0
    /\ success = "None"
    /\ log = <<>>
    /\ args = NoArgs
    /\ result = "pending"
    /\ built = 0
    /\ prev = NoCall
    /\ located = NotLocated

----------------------------------------------------------------------------
(* Downburst.create *)

\* the names tempfile.NamedTemporaryFile hands out, a new one at each call
TmpNames == <<"tmp1", "tmp2", "tmp3", "tmp4">>
NewFile == TmpNames[built + 1]

\* build_config(): a new temp file, whose name replaces config_path
build_config ==
    /\ files' = files \cup {NewFile}
    /\ config_path' = NewFile
    /\ built' = built + 1

\* CreateBegin entering the loop without having built the descriptor
CreateBegin_noBuild ==
    /\ pc = "idle"
    /\ built < MaxBuilds
    /\ op' = "create"
    /\ success' = "None"
    /\ counter' = 0
    /\ pc' = "while"
    /\ UNCHANGED <<env, descriptor, log, args, result, history>>

\* create up to the loop: build_config() and success = None
CreateBegin ==
    /\ pc = "idle"
    /\ built < MaxBuilds
    /\ op' = "create"
    /\ build_config
    /\ success' = "None"
    /\ counter' = 0
    /\ pc' = "while"
    /\ UNCHANGED <<env, log, args, result, history>>

\* while proceed(): enter the body, or leave the loop and return success
CreateProceed ==
    /\ op = "create" /\ pc = "while"
    /\ counter' = counter + 1
    /\ IF proceed(counter + 1)
       THEN /\ pc' = "run"
            /\ UNCHANGED result
       ELSE /\ pc' = "done"
            /\ result' = success
    /\ UNCHANGED <<env, descriptor, op, success, log, args, history>>

\* (returncode, stdout, stderr) = self._run_create() and the branch on it
CreateAttempt ==
    /\ op = "create" /\ pc = "run"
    /\ IF config_path = "None"
       THEN /\ result' = "ValueError"
            /\ pc' = "done"
            /\ UNCHANGED <<success, log>>
       ELSE IF executable = <<>>
       THEN \* _run_create returns False, which does not unpack into three names
            /\ result' = "TypeError"
            /\ pc' = "done"
            /\ UNCHANGED <<success, log>>
       ELSE \E returncode \in ReturnCodes, stderr \in Stderrs :
            LET step == CreateStep(returncode, stderr, success) IN
            /\ log' = Append(log, Invocation("create", returncode, stderr))
            /\ success' = step.success
            /\ IF step.next = "break"
               THEN /\ pc' = "done"
                    /\ result' = step.success
               ELSE /\ pc' = IF step.next = "destroy" THEN "recover" ELSE "while"
                    /\ UNCHANGED result
    /\ UNCHANGED <<env, descriptor, op, counter, args, history>>

\* AfterRecover giving up when the destroy did not succeed
AfterRecover_stopOnFailure(destroyed, succ) ==
    IF destroyed = "False" THEN [success |-> "False", next |-> "break"]
    ELSE [success |-> succ, next |-> "continue"]

\* the conflict branch after self.destroy() returned destroyed: the statement
\* drops the value, and the loop goes on
AfterRecover(destroyed, succ) ==
    [success |-> succ, next |-> "continue"]

\* self.destroy() in the conflict branch
CreateRecover ==
    /\ op = "create" /\ pc = "recover"
    /\ \E returncode \in ReturnCodes, err \in Stderrs :
        LET found == executable # <<>>
            destroyed == IF found THEN DestroyResult(returncode, err) ELSE "False"
            after == AfterRecover(destroyed, success)
        IN /\ log' = IF found
                     THEN Append(log, Invocation("destroy", returncode, err))
                     ELSE log
           /\ success' = after.success
           /\ IF after.next = "break"
              THEN /\ pc' = "done"
                   /\ result' = after.success
              ELSE /\ pc' = "while"
                   /\ UNCHANGED result
    /\ UNCHANGED <<env, descriptor, op, counter, args, history>>

----------------------------------------------------------------------------
(* Downburst.destroy, called on its own *)

Destroy ==
    /\ pc = "idle"
    /\ op' = "destroy"
    /\ pc' = "done"
    /\ IF executable = <<>>
       THEN /\ result' = "False"
            /\ UNCHANGED log
       ELSE \E returncode \in ReturnCodes, err \in Stderrs :
            /\ log' = Append(log, Invocation("destroy", returncode, err))
            /\ result' = DestroyResult(returncode, err)
    /\ UNCHANGED <<env, descriptor, counter, success, args, history>>

----------------------------------------------------------------------------
(* destroy_if_vm *)

DestroyIfVm ==
    /\ pc = "idle"
    /\ \E status_info \in Statuses, user \in Users \cup {"None"},
          description \in Descriptions \cup {"None"} :
        LET gate == DestroyGate(status_info, user, description) IN
        /\ args' = [status_info |-> status_info, user |-> user,
                    description |-> description]
        /\ IF gate # "construct"
           THEN /\ result' = gate
                /\ UNCHANGED log
           ELSE IF ConstructByKeyword("machine_name") = "TypeError"
           THEN /\ result' = "TypeError"
                /\ UNCHANGED log
           ELSE IF executable = <<>>
           THEN /\ result' = "False"
                /\ UNCHANGED log
           ELSE \E returncode \in ReturnCodes, err \in Stderrs :
                /\ log' = Append(log, Invocation("destroy", returncode, err))
                /\ result' = DestroyResult(returncode, err)
    /\ op' = "destroy_if_vm"
    /\ pc' = "done"
    /\ UNCHANGED <<env, descriptor, counter, success, history>>

----------------------------------------------------------------------------
(* build_config, remove_config and __del__, called on their own, and the   *)
(* caller going on to its next call on the same controller                 *)

BuildConfig ==
    /\ pc = "idle"
    /\ built < MaxBuilds
    /\ build_config
    /\ op' = "build_config"
    /\ pc' = "done"
    /\ result' = "True"
    /\ UNCHANGED <<env, counter, success, log, args, history>>

\* os.path.exists(path): it raises on None, which is not a path
OsPathExists(path, fs) ==
    IF path = "None" THEN "TypeError"
    ELSE IF path \in fs THEN "True"
    ELSE "False"

\* remove_config() on a controller with this config_path, the disk holding fs:
\* what it returns or raises, and what it leaves behind
remove_config(path, fs) ==
    LET there == OsPathExists(path, fs) IN
    IF there = "True"
    THEN [result |-> "True", config_path |-> "None", files |-> fs \ {path}]
    ELSE [result |-> there, config_path |-> path, files |-> fs]

RemoveConfig ==
    /\ pc = "idle"
    /\ LET r == remove_config(config_path, files) IN
        /\ result' = r.result
        /\ config_path' = r.config_path
        /\ files' = r.files
    /\ op' = "remove_config"
    /\ pc' = "done"
    /\ UNCHANGED <<env, built, counter, success, log, args, history>>

\* __del__ when the controller is discarded: remove_config(), and whatever it
\* raises is dropped by the interpreter
Del ==
    /\ pc = "idle"
    /\ LET r == remove_config(config_path, files) IN
        /\ config_path' = r.config_path
        /\ files' = r.files
    /\ op' = "__del__"
    /\ pc' = "discarded"
    /\ result' = "None"
    /\ UNCHANGED <<env, built, counter, success, log, args, history>>

\* the finished call is over; the controller is ready for the next one
Return ==
    /\ pc = "done"
    /\ prev' = [op |-> op, result |-> result]
    /\ op' = "none"
    /\ pc' = "idle"
    /\ counter' = 0
    /\ success' = "None"
    /\ log' = <<>>
    /\ args' = NoArgs
    /\ result' = "pending"
    /\ UNCHANGED <<env, descriptor, located>>

----------------------------------------------------------------------------
(* The executable property read on its own *)

Locate ==
    /\ pc = "idle"
    /\ located' = [path |-> executable,
                   probed |-> AccessCalls(configDownburst, PATH, xok)]
    /\ op' = "executable"
    /\ pc' = "done"
    /\ UNCHANGED <<env, descriptor, counter, success, log, args, result, prev>>

----------------------------------------------------------------------------

Next ==
    \/ CreateBegin
    \/ CreateProceed
    \/ CreateAttempt
    \/ CreateRecover
    \/ Destroy
    \/ DestroyIfVm

Spec == Init /\ [][Next]_vars

\* one controller used for a sequence of calls and then discarded
InitLifecycle ==
    /\ Init
    /\ PATH = <<>>
    /\ xok = {}

NextLifecycle ==
    \/ CreateBegin
    \/ CreateProceed
    \/ CreateAttempt
    \/ CreateRecover
    \/ Destroy
    \/ BuildConfig
    \/ RemoveConfig
    \/ Del
    \/ Return

SpecLifecycle == InitLifecycle /\ [][NextLifecycle]_vars

\* the locator in every environment: any override, any PATH over Dirs, any
\* set of executable candidates
InitExecutable ==
    /\ configDownburst \in {<<>>, CfgPath}
    /\ PATH \in SeqsUpTo(Dirs, MaxPathLen)
    /\ xok \in SUBSET Candidates
    /\ config_path = "None"
    /\ files = {}
    /\ op = "none"
    /\ pc = "idle"
    /\ counter = 0
    /\ success = "None"
    /\ log = <<>>
    /\ args = NoArgs
    /\ result = "pending"
    /\ built = 0
    /\ prev = NoCall
    /\ located = NotLocated

NextExecutable == Locate

SpecExecutable == InitExecutable /\ [][NextExecutable]_vars

----------------------------------------------------------------------------
(* Properties of Downburst.create *)

IsCreate(e) == e.kind = "create"
IsDestroy(e) == e.kind = "destroy"
Creates == SelectSeq(log, IsCreate)
Destroys == SelectSeq(log, IsDestroy)

\* an attempt that failed because the guest already exists
Conflict(e) == e.returncode # 0 /\ Contains(e.stderr, <<"exists">>)

\* C1: when the first create invocation exits with code 0, create has
\* returned True, and that invocation is the only external invocation made:
\* one create, no destroy.
C1_FirstAttemptSucceeds ==
    (op = "create" /\ Len(log) >= 1 /\ log[1].returncode = 0)
        => /\ result = "True"
           /\ Len(Creates) = 1
           /\ Len(Destroys) = 0

C1_Witness ==
    /\ op = "create" /\ pc = "done"
    /\ Len(log) = 1 /\ log[1].kind = "create" /\ log[1].returncode = 0
    /\ result = "True"

\* C2: when attempt 1 fails with "exists" in stderr and attempt 2 exits with
\* code 0, the invocations are create, destroy, create in that order (one
\* destroy between two creates) and create has returned True.
C2_ConflictThenSuccess ==
    (op = "create" /\ Len(Creates) >= 2 /\ Conflict(Creates[1])
        /\ Creates[2].returncode = 0)
        => /\ result = "True"
           /\ Len(Creates) = 2
           /\ Len(Destroys) = 1
           /\ Len(log) = 3
           /\ log[1].kind = "create" /\ log[2].kind = "destroy"
           /\ log[3].kind = "create"

C2_Witness ==
    /\ op = "create" /\ pc = "done" /\ result = "True"
    /\ Len(log) = 3
    /\ Conflict(log[1]) /\ log[2].kind = "destroy" /\ log[3].returncode = 0

\* C3 (as claimed): every create invocation that fails with a stderr not
\* containing "exists", empty stderr included, is the last invocation of the
\* call, and the call returns False.
C3_FatalFailureStops ==
    op = "create" =>
        \A i \in 1..Len(log) :
            (log[i].kind = "create" /\ log[i].returncode # 0
                /\ ~Contains(log[i].stderr, <<"exists">>))
            => /\ i = Len(log)
               /\ pc = "done" => result = "False"

\* C4: during one create call the number of external create invocations
\* never exceeds 3.
C4_AtMostThreeAttempts ==
    op = "create" => Len(Creates) <= 3

C4_Witness ==
    op = "create" /\ Len(Creates) = 3

\* C5: when the budget runs out after three attempts that all failed with
\* "exists" in stderr, create returns the recorded flag, False.
C5_ExhaustedReturnsFalse ==
    (op = "create" /\ pc = "done" /\ Len(Creates) = 3
        /\ \A i \in 1..3 : Conflict(Creates[i]))
        => result = "False"

C5_Witness ==
    /\ op = "create" /\ pc = "done" /\ result = "False"
    /\ Len(Creates) = 3 /\ \A i \in 1..3 : Conflict(Creates[i])
    /\ counter = 4

\* C6 (as claimed): a finished create call in which an attempt ran has a
\* boolean result, never None.
C6_ResultIsBoolean ==
    (op = "create" /\ pc = "done" /\ Len(Creates) >= 1)
        => result \in {"True", "False"}

\* C7 (as claimed): with no executable found, create and destroy finish
\* with False, raising nothing and invoking nothing.
C7_NoExecutableReportsFalse ==
    (op \in {"create", "destroy"} /\ pc = "done" /\ executable = <<>>)
        => result = "False" /\ log = <<>>

----------------------------------------------------------------------------
(* Properties of Downburst.destroy and destroy_if_vm *)

\* C8: given an executable, destroy makes exactly one destroy invocation and
\* returns True exactly when that invocation's stderr is empty and its exit
\* code is 0; otherwise it returns False.
C8_DestroyClassification ==
    (op = "destroy" /\ pc = "done" /\ executable # <<>>)
        => /\ Len(log) = 1 /\ log[1].kind = "destroy"
           /\ result \in {"True", "False"}
           /\ result = "True" <=> (log[1].stderr = <<>> /\ log[1].returncode = 0)

C8_Witness ==
    /\ op = "destroy" /\ pc = "done"
    /\ Len(log) = 1 /\ log[1].stderr # <<>> /\ log[1].returncode = 0
    /\ result = "False"

\* the status says the target is a VM
IsVmTarget == "is_vm" \in DOMAIN args.status_info /\ args.status_info.is_vm

UserMismatch == args.user # "None" /\ args.user # args.status_info.locked_by
DescriptionMismatch ==
    args.description # "None" /\ args.description # args.status_info.description

C10_NonVmIsNoOp ==
    (op = "destroy_if_vm" /\ pc = "done" /\ ~IsVmTarget)
        => result = "True" /\ log = <<>>

C10_Witness ==
    /\ op = "destroy_if_vm" /\ pc = "done"
    /\ args.status_info # NoStatus
    /\ "is_vm" \notin DOMAIN args.status_info
    /\ args.user # "None" /\ args.user # args.status_info.locked_by
    /\ result = "True" /\ log = <<>>

\* C11 (as claimed): destroy_if_vm returns False only when a downburst
\* destroy failed: a call that returned False has made a destroy invocation,
\* and that invocation failed.
C11_FalseOnlyOnDownburstFailure ==
    (op = "destroy_if_vm" /\ pc = "done" /\ result = "False")
        => /\ Len(log) = 1 /\ log[1].kind = "destroy"
           /\ (log[1].returncode # 0 \/ log[1].stderr # <<>>)

----------------------------------------------------------------------------
(* Properties of the descriptor file *)

\* C12 (as claimed): a remove_config() that follows a remove_config() which
\* removed the file is a no-op returning False; it raises nothing.
C12_SecondRemoveReturnsFalse ==
    (op = "remove_config" /\ pc = "done"
        /\ prev.op = "remove_config" /\ prev.result = "True")
        => result = "False"

\* C13 (as claimed): at any time at most one descriptor file made by the
\* controller is still on disk.
C13_AtMostOneDescriptor ==
    Cardinality(files) <= 1

\* C14 (as claimed): once the controller has been discarded, none of its
\* descriptor files is left on disk.
C14_NoDescriptorAfterDiscard ==
    pc = "discarded" => files = {}

----------------------------------------------------------------------------
(* Properties of Downburst.executable *)

\* positions in PATH, and in the list of fallback users, whose candidate is
\* executable
PathHits == {i \in 1..Len(PATH) : <<PATH[i], "downburst">> \in xok}
HomeHits ==
    {j \in 1..3 :
        <<"home", <<"me", "ubuntu", "teuthology">>[j],
          "src/downburst/virtualenv/bin/downburst">> \in xok}
Least(S) == CHOOSE n \in S : \A m \in S : n <= m
HomePath(j) ==
    <<"home", <<"me", "ubuntu", "teuthology">>[j],
      "src/downburst/virtualenv/bin/downburst">>
Probed(p) == \E k \in 1..Len(located.probed) : located.probed[k] = p

----------------------------------------------------------------------------
(* Further properties of Downburst.create *)

C17_DestroyExactlyAfterConflict ==
    op = "create" =>
        \A i \in 1..Len(log) :
            /\ log[i].kind = "destroy"
                => /\ i > 1
                   /\ log[i - 1].kind = "create"
                   /\ log[i - 1].returncode # 0
                   /\ \E k \in 1..Len(log[i - 1].stderr) :
                          log[i - 1].stderr[k] = "exists"
            /\ (log[i].kind = "create" /\ Conflict(log[i]))
                => IF i < Len(log) THEN log[i + 1].kind = "destroy"
                   ELSE pc = "recover"

C17_Witness ==
    /\ op = "create" /\ pc = "done"
    /\ Len(log) = 5
    /\ Conflict(log[1]) /\ log[2].kind = "destroy"
    /\ Conflict(log[3]) /\ log[4].kind = "destroy"
    /\ log[5].kind = "create" /\ log[5].returncode # 0 /\ log[5].stderr = <<"other">>

\* C18 (as claimed): destroy_if_vm on a VM, with every supplied user and
\* description equal to the status's, makes one destroy invocation and
\* returns its classification, True or False, raising nothing.
C18_MatchingCallDestroys ==
    (op = "destroy_if_vm" /\ pc = "done" /\ IsVmTarget
        /\ ~UserMismatch /\ ~DescriptionMismatch /\ executable # <<>>)
        => /\ result \in {"True", "False"}
           /\ Len(log) = 1 /\ log[1].kind = "destroy"
           /\ result = "True" <=> (log[1].stderr = <<>> /\ log[1].returncode = 0)

\* C19: what the recovery destroy returned makes no difference: after it,
\* successful or not, the flag is False and the call goes on to its next
\* attempt; it ends without one only when the three attempts are used up,
\* and then returns False.
C19_RecoveryResultIgnored ==
    (op = "create" /\ Len(log) >= 1 /\ log[Len(log)].kind = "destroy")
        => /\ success = "False"
           /\ \/ pc \in {"while", "run"} /\ result = "pending"
              \/ pc = "done" /\ counter = 4 /\ Len(Creates) = 3 /\ result = "False"

C19_Witness ==
    /\ op = "create" /\ Len(log) = 5
    /\ log[2].kind = "destroy" /\ log[2].returncode = 0 /\ log[2].stderr = <<>>
    /\ log[4].kind = "destroy" /\ log[4].returncode # 0
    /\ log[5].kind = "create"

\* C20: create has returned True only when its last external invocation was
\* a create invocation with exit code 0, and a create invocation with exit
\* code 0 is never followed by another invocation.
C20_TrueOnlyAfterZeroExit ==
    op = "create" =>
        /\ result = "True"
            => /\ Len(log) >= 1
               /\ log[Len(log)].kind = "create"
               /\ log[Len(log)].returncode = 0
        /\ \A i \in 1..Len(log) :
            (log[i].kind = "create" /\ log[i].returncode = 0) => i = Len(log)

C20_Witness ==
    /\ op = "create" /\ pc = "done" /\ result = "True"
    /\ Len(log) = 5 /\ log[5].kind = "create" /\ log[5].returncode = 0

====
